---- MODULE Spec2Model ----
(***************************************************************************)
(* Model of the SUB command codec (src/protocol/client/sub_cmd.rs):        *)
(* the derived SubCommandBuilder, its validation, SubCommand::into_vec     *)
(* and SubCommand::try_parse.                                              *)
(*                                                                         *)
(* A String is a sequence of Unicode code points, a byte buffer a sequence *)
(* of integers 0..255.  Option<T> is a sequence of length 0 (None) or      *)
(* 1 (Some).  A Result is a record [tag, val, kind, field].                *)
(***************************************************************************)
EXTENDS Integers, Sequences, FiniteSets, TLC

\* ------------------------------------------------------------------------
\* Bytes and code points of the wire format
\* ------------------------------------------------------------------------
TAB == 9
LF == 10
CR == 13

\* const CMD_NAME: &'static [u8] = b"SUB"
CMD_NAME == <<83, 85, 66>>

\* take(12) in generate_sid
SidLen == 12

\* Largest number of tokens that follow the first token of a received frame
MaxArgs == 4

None == <<>>
Some(x) == <<x>>

\* ------------------------------------------------------------------------
\* Results
\* ------------------------------------------------------------------------
Ok(v) == [tag |-> "Ok", val |-> <<v>>, kind |-> "", field |-> ""]
Err(k, f) == [tag |-> "Err", val |-> <<>>, kind |-> k, field |-> f]
Panic == [tag |-> "Panic", val |-> <<>>, kind |-> "", field |-> ""]
NoResult == [tag |-> "None", val |-> <<>>, kind |-> "", field |-> ""]

IncompleteCommandError == Err("IncompleteCommandError", "")
CommandMalformed == Err("CommandMalformed", "")
Utf8Error == Err("Utf8Error", "")

\* ------------------------------------------------------------------------
\* UTF-8: String::as_bytes and std::str::from_utf8
\* ------------------------------------------------------------------------
utf8_char(c) ==
    IF c < 128 THEN <<c>>
    ELSE IF c < 2048 THEN <<192 + (c \div 64), 128 + (c % 64)>>
    ELSE IF c < 65536
         THEN <<224 + (c \div 4096), 128 + ((c \div 64) % 64), 128 + (c % 64)>>
         ELSE <<240 + (c \div 262144), 128 + ((c \div 4096) % 64),
                128 + ((c \div 64) % 64), 128 + (c % 64)>>

RECURSIVE as_bytes(_)
as_bytes(s) == IF s = <<>> THEN <<>> ELSE utf8_char(Head(s)) \o as_bytes(Tail(s))

IsCont(b) == b >= 128 /\ b <= 191

\* Decodes b from position i on; acc is the text decoded so far.
RECURSIVE Utf8From(_, _, _)
Utf8From(b, i, acc) ==
    IF i > Len(b) THEN [ok |-> TRUE, str |-> acc]
    ELSE LET b0 == b[i]
             n  == Len(b) IN
         IF b0 < 128 THEN Utf8From(b, i + 1, Append(acc, b0))
         ELSE IF b0 >= 194 /\ b0 <= 223
         THEN IF i + 1 <= n /\ IsCont(b[i + 1])
              THEN Utf8From(b, i + 2, Append(acc, (b0 - 192) * 64 + (b[i + 1] - 128)))
              ELSE [ok |-> FALSE, str |-> <<>>]
         ELSE IF b0 >= 224 /\ b0 <= 239
         THEN IF /\ i + 2 <= n
                 /\ IsCont(b[i + 1]) /\ IsCont(b[i + 2])
                 /\ (b0 = 224 => b[i + 1] >= 160)
                 /\ (b0 = 237 => b[i + 1] <= 159)
              THEN Utf8From(b, i + 3,
                     Append(acc, (b0 - 224) * 4096 + (b[i + 1] - 128) * 64 + (b[i + 2] - 128)))
              ELSE [ok |-> FALSE, str |-> <<>>]
         ELSE IF b0 >= 240 /\ b0 <= 244
         THEN IF /\ i + 3 <= n
                 /\ IsCont(b[i + 1]) /\ IsCont(b[i + 2]) /\ IsCont(b[i + 3])
                 /\ (b0 = 240 => b[i + 1] >= 144)
                 /\ (b0 = 244 => b[i + 1] <= 143)
              THEN Utf8From(b, i + 4,
                     Append(acc, (b0 - 240) * 262144 + (b[i + 1] - 128) * 4096
                                 + (b[i + 2] - 128) * 64 + (b[i + 3] - 128)))
              ELSE [ok |-> FALSE, str |-> <<>>]
         ELSE [ok |-> FALSE, str |-> <<>>]

from_utf8(b) == Utf8From(b, 1, <<>>)

\* ------------------------------------------------------------------------
\* str::split_whitespace (char::is_whitespace is the Unicode White_Space set)
\* ------------------------------------------------------------------------
WhiteSpace ==
    {9, 10, 11, 12, 13, 32, 133, 160, 5760, 8232, 8233, 8239, 8287, 12288}
        \cup (8192..8202)

is_whitespace(c) == c \in WhiteSpace

RECURSIVE SplitFrom(_, _, _, _)
SplitFrom(s, i, cur, acc) ==
    IF i > Len(s)
    THEN IF cur = <<>> THEN acc ELSE Append(acc, cur)
    ELSE IF is_whitespace(s[i])
         THEN SplitFrom(s, i + 1, <<>>, IF cur = <<>> THEN acc ELSE Append(acc, cur))
         ELSE SplitFrom(s, i + 1, Append(cur, s[i]), acc)

split_whitespace(s) == SplitFrom(s, 1, <<>>, <<>>)

\* ------------------------------------------------------------------------
\* SubCommand
\* ------------------------------------------------------------------------
SubCommand(subject, queue_group, sid) ==
    [subject |-> subject, queue_group |-> queue_group, sid |-> sid]

\* The sample of the Alphanumeric distribution the model draws from
AlnumSample == {48, 122}

Alphanumeric == (48..57) \cup (65..90) \cup (97..122)

\* thread_rng().sample_iter(&Alphanumeric).take(12).collect():
\* the set of strings one call can return
\* Variant: take(11)
generate_sid_short == [1..(SidLen - 1) -> AlnumSample]
generate_sid == [1..SidLen -> AlnumSample]

\* format!("SUB\t{}{}\t{}\r\n", self.subject, qg, self.sid).as_bytes().into()
\* Variant: the separator of the queue group is written even when it is absent
into_vec_empty_group(self) ==
    Ok(as_bytes(CMD_NAME \o <<TAB>> \o self.subject \o <<TAB>>
                \o (IF self.queue_group # None THEN self.queue_group[1] ELSE <<>>)
                \o <<TAB>> \o self.sid \o <<CR, LF>>))
into_vec(self) ==
    LET qg == IF self.queue_group # None
              THEN <<TAB>> \o self.queue_group[1]
              ELSE <<>>
    IN Ok(as_bytes(CMD_NAME \o <<TAB>> \o self.subject \o qg
                   \o <<TAB>> \o self.sid \o <<CR, LF>>))

\* buf[len - 2..] != [b'\r', b'\n'], for len >= 2
lacks_terminator(buf) == SubSeq(buf, Len(buf) - 1, Len(buf)) # <<CR, LF>>

\* cmd.as_bytes() != Self::CMD_NAME
\* Variant: starts_with instead of equality
cmd_matches_prefix(cmd) ==
    /\ Len(as_bytes(cmd)) >= Len(CMD_NAME)
    /\ SubSeq(as_bytes(cmd), 1, Len(CMD_NAME)) = CMD_NAME
cmd_matches(cmd) == as_bytes(cmd) = CMD_NAME

\* split.next_back() after the two calls of split.next(): the last token,
\* if one is left behind the subject
\* Variant: next_back() on an iterator that still holds the subject
sid_token_reuses_subject(split) ==
    IF Len(split) >= 2 THEN Some(split[Len(split)]) ELSE None
\* Variant: next() instead of next_back()
sid_token_from_front(split) ==
    IF Len(split) >= 3 THEN Some(split[3]) ELSE None
sid_token(split) ==
    IF Len(split) >= 3 THEN Some(split[Len(split)]) ELSE None

\* split.next() after next_back(): the third token, if one is left between
\* the subject and the subscription id
\* Variant: the queue group is read before the sid is taken off the back
queue_group_token_ignores_sid(split) ==
    IF Len(split) >= 3 THEN Some(split[3]) ELSE None
queue_group_token(split) ==
    IF Len(split) >= 4 THEN Some(split[3]) ELSE None

try_parse(buf) ==
    LET len == Len(buf) IN
    \* len - 2 on a usize: an overflow panic in a debug build, a wrap to
    \* 2^64 - 2 and an out-of-range slice panic in a release build
    IF len < 2 THEN Panic
    ELSE IF lacks_terminator(buf) THEN IncompleteCommandError
    ELSE LET whole_command == from_utf8(SubSeq(buf, 1, len - 2)) IN
         IF ~whole_command.ok THEN Utf8Error
         ELSE LET split == split_whitespace(whole_command.str) IN
              IF Len(split) < 1 THEN CommandMalformed
              ELSE IF ~cmd_matches(split[1]) THEN CommandMalformed
              ELSE IF Len(split) < 2 THEN CommandMalformed
              ELSE IF sid_token(split) = None THEN CommandMalformed
              ELSE Ok(SubCommand(split[2], queue_group_token(split),
                                 sid_token(split)[1]))

\* ------------------------------------------------------------------------
\* SubCommandBuilder
\* ------------------------------------------------------------------------
\* check_cmd_arg!(val, part): the argument-format rule, non-empty and
\* without whitespace; the result names the offending part
check_cmd_arg(val, part) ==
    IF val = <<>> \/ \E i \in 1..Len(val) : is_whitespace(val[i])
    THEN Err("ValidationError", part)
    ELSE Ok(<<>>)

\* Variant: the queue group is not checked
validate_subject_only(self) ==
    IF self.subject # None
    THEN check_cmd_arg(self.subject[1], "subject")
    ELSE Ok(<<>>)
validate(self) ==
    LET subj == IF self.subject # None
                THEN check_cmd_arg(self.subject[1], "subject")
                ELSE Ok(<<>>)
    IN IF subj.tag # "Ok" THEN subj
       ELSE IF self.queue_group # None /\ self.queue_group[1] # None
            THEN check_cmd_arg(self.queue_group[1][1], "queue group")
            ELSE Ok(<<>>)

\* Whether build() reaches the default expression of sid
uses_generator(self) ==
    validate(self).tag = "Ok" /\ self.subject # None /\ self.sid = None

\* The derived build(): validate, then each field from its setter or its
\* default; g is the string generate_sid() returns if it is called
build(self, g) ==
    LET v == validate(self) IN
    IF v.tag # "Ok" THEN v
    ELSE IF self.subject = None THEN Err("UninitializedField", "subject")
    ELSE Ok(SubCommand(self.subject[1],
                       IF self.queue_group # None THEN self.queue_group[1] ELSE None,
                       IF self.sid # None THEN self.sid[1] ELSE g))

\* SubCommandBuilder::default()
builder == [subject |-> None, queue_group |-> None, sid |-> None]

\* ------------------------------------------------------------------------
\* Inputs
\* ------------------------------------------------------------------------
FOO == <<70, 79, 79>>
\* Strings a caller hands to the setters: well-formed, empty, with a space,
\* with a tab, with a non-ASCII letter, with a no-break space
Strs == {FOO, <<103>>, <<>>, <<97, 32, 98>>, <<97, TAB, 98>>, <<233>>, <<97, 160>>}

\* First tokens of a received frame
Tags == {CMD_NAME, <<115, 117, 98>>, <<80, 85, 66>>, <<83, 85, 66, 88>>, <<83, 85>>}
\* Further tokens
Args == {FOO, <<103>>, CMD_NAME}
ArgSeqs == UNION {[1..n -> Args] : n \in 0..MaxArgs}
\* Separators between tokens: tab, a run of whitespace, a no-break space
Seps == {<<TAB>>, <<32, TAB>>, <<194, 160>>}
\* What follows the last token: nothing, a trailing space, an invalid byte
Trails == {<<>>, <<32>>, <<255>>}
Terminators == {<<CR, LF>>, <<>>, <<LF>>, <<CR>>}

RECURSIVE Join(_, _)
Join(toks, sep) ==
    IF toks = <<>> THEN <<>>
    ELSE IF Len(toks) = 1 THEN toks[1]
    ELSE toks[1] \o sep \o Join(Tail(toks), sep)

Frame(toks, sep, trail, term) == Join(toks, sep) \o trail \o term

\* ------------------------------------------------------------------------
\* State
\* ------------------------------------------------------------------------
VARIABLES
    pc,         \* "start", "built", "encoded", "parsed"
    self,       \* the SubCommandBuilder
    rng_calls,  \* number of calls of generate_sid
    built,      \* result of build()
    wire,       \* result of into_vec()
    buf,        \* the buffer handed to try_parse
    parsed      \* result of try_parse()

vars == <<pc, self, rng_calls, built, wire, buf, parsed>>

Init ==
    /\ pc = "start"
    /\ self = builder
    /\ rng_calls = 0
    /\ built = NoResult
    /\ wire = NoResult
    /\ buf = <<>>
    /\ parsed = NoResult

\* builder.subject(s)
SetSubject ==
    /\ pc = "start"
    /\ \E s \in Strs : self' = [self EXCEPT !.subject = Some(s)]
    /\ UNCHANGED <<pc, rng_calls, built, wire, buf, parsed>>

\* builder.queue_group(g)
SetQueueGroup ==
    /\ pc = "start"
    /\ \E g \in {None} \cup {Some(s) : s \in Strs} :
            self' = [self EXCEPT !.queue_group = Some(g)]
    /\ UNCHANGED <<pc, rng_calls, built, wire, buf, parsed>>

\* builder.sid(s)
SetSid ==
    /\ pc = "start"
    /\ \E s \in Strs : self' = [self EXCEPT !.sid = Some(s)]
    /\ UNCHANGED <<pc, rng_calls, built, wire, buf, parsed>>

\* builder.build()
Build ==
    /\ pc = "start"
    /\ IF uses_generator(self)
       THEN /\ \E g \in generate_sid : built' = build(self, g)
            /\ rng_calls' = rng_calls + 1
       ELSE /\ built' = build(self, <<>>)
            /\ rng_calls' = rng_calls
    /\ pc' = "built"
    /\ UNCHANGED <<self, wire, buf, parsed>>

\* cmd.into_vec()
IntoVec ==
    /\ pc = "built"
    /\ built.tag = "Ok"
    /\ wire' = into_vec(built.val[1])
    /\ pc' = "encoded"
    /\ UNCHANGED <<self, rng_calls, built, buf, parsed>>

\* SubCommand::try_parse(&bytes) on the encoded command
TryParse ==
    /\ pc = "encoded"
    /\ wire.tag = "Ok"
    /\ buf' = wire.val[1]
    /\ parsed' = try_parse(buf')
    /\ pc' = "parsed"
    /\ UNCHANGED <<self, rng_calls, built, wire>>

\* SubCommand::try_parse(buf) on a frame received from the transport
TryParseFrame ==
    /\ pc = "start"
    /\ \E tag \in Tags \cup {<<>>}, args \in ArgSeqs, sep \in Seps,
          trail \in Trails, term \in Terminators :
         buf' = Frame(IF tag = <<>> THEN <<>> ELSE <<tag>> \o args, sep, trail, term)
    /\ parsed' = try_parse(buf')
    /\ pc' = "parsed"
    /\ UNCHANGED <<self, rng_calls, built, wire>>

Next == SetSubject \/ SetQueueGroup \/ SetSid \/ Build \/ IntoVec \/ TryParse

Spec == Init /\ [][Next]_vars

ParseNext == TryParseFrame

ParseSpec == Init /\ [][ParseNext]_vars

\* ------------------------------------------------------------------------
\* Vocabulary of the properties
\* ------------------------------------------------------------------------
\* The argument-format rule: non-empty and free of whitespace
IsArg(s) == s # <<>> /\ \A i \in 1..Len(s) : s[i] \notin WhiteSpace

EndsWithCRLF(b) == Len(b) >= 2 /\ b[Len(b) - 1] = CR /\ b[Len(b)] = LF

\* The buffer without its two last bytes
Body(b) == SubSeq(b, 1, Len(b) - 2)

Decodable(b) == from_utf8(Body(b)).ok

\* Tokens of a CRLF-terminated, decodable buffer
Tokens(b) == split_whitespace(from_utf8(Body(b)).str)

\* Text of a buffer with every byte that does not decode replaced by U+FFFD
RECURSIVE LossyFrom(_, _, _)
LossyFrom(b, i, acc) ==
    IF i > Len(b) THEN acc
    ELSE LET one == from_utf8(SubSeq(b, i, i))
             two == from_utf8(SubSeq(b, i, i + 1)) IN
         IF one.ok THEN LossyFrom(b, i + 1, acc \o one.str)
         ELSE IF i + 1 <= Len(b) /\ two.ok THEN LossyFrom(b, i + 2, acc \o two.str)
         ELSE LossyFrom(b, i + 1, Append(acc, 65533))

\* Whitespace-separated tokens of any CRLF-terminated buffer
LossyTokens(b) == split_whitespace(LossyFrom(Body(b), 1, <<>>))

\* The value build() returned
Value == built.val[1]

\* ------------------------------------------------------------------------
\* Properties
\* ------------------------------------------------------------------------

\* C1: round trip. Parsing the bytes into_vec produced for a value returned
\* by build() succeeds and returns that value, equal in all three fields.
C1_RoundTrip ==
    (pc = "parsed" /\ wire.tag = "Ok") => parsed = Ok(Value)

\* C2: terminator guard. Every buffer that does not end in CR LF, the empty
\* buffer and one-byte buffers included, is answered with IncompleteCommand.
C2_TerminatorGuard ==
    (pc = "parsed" /\ wire.tag = "None" /\ ~EndsWithCRLF(buf))
        => parsed = IncompleteCommandError

\* C3 as stated: a CRLF-terminated buffer whose first whitespace-separated
\* token is not SUB is answered with CommandMalformed, whatever bytes follow.
C3_TagGuardAnyBytes ==
    (/\ pc = "parsed" /\ wire.tag = "None"
     /\ EndsWithCRLF(buf)
     /\ LossyTokens(buf) # <<>>
     /\ LossyTokens(buf)[1] # CMD_NAME)
        => parsed = CommandMalformed

\* C3 amended: a CRLF-terminated buffer that decodes as UTF-8 and whose first
\* whitespace-separated token is not exactly SUB is answered with
\* CommandMalformed, whatever follows the first token.
C3_TagGuard ==
    (/\ pc = "parsed" /\ wire.tag = "None"
     /\ EndsWithCRLF(buf)
     /\ Decodable(buf)
     /\ Tokens(buf) # <<>>
     /\ Tokens(buf)[1] # CMD_NAME)
        => parsed = CommandMalformed

\* A frame SUBX, FOO, g (three tokens, a wrong tag) was rejected as malformed
C3_Witness ==
    /\ pc = "parsed" /\ wire.tag = "None"
    /\ EndsWithCRLF(buf) /\ Decodable(buf)
    /\ Tokens(buf) = <<CMD_NAME \o <<88>>, FOO, <<103>>>>
    /\ parsed = CommandMalformed

\* C4: encoding format. into_vec returns Ok with exactly the bytes
\* SUB TAB subject TAB sid CR LF without a queue group and
\* SUB TAB subject TAB queue_group TAB sid CR LF with one.
C4_EncodingFormat ==
    (pc \in {"encoded", "parsed"}) =>
        /\ wire.tag = "Ok"
        /\ wire.val[1] =
             <<83, 85, 66, 9>> \o as_bytes(Value.subject)
             \o (IF Value.queue_group = None
                 THEN <<>>
                 ELSE <<9>> \o as_bytes(Value.queue_group[1]))
             \o <<9>> \o as_bytes(Value.sid) \o <<13, 10>>

\* The value {FOO, None, g} was encoded as SUB TAB FOO TAB g CR LF
C4_Witness ==
    /\ pc = "encoded"
    /\ Value = SubCommand(FOO, None, <<103>>)
    /\ wire.val = << <<83, 85, 66, 9, 70, 79, 79, 9, 103, 13, 10>> >>

\* C5: construction invariant. A value returned by build() has a well-formed
\* subject, a well-formed sid and, when present, a well-formed queue group.
C5_ConstructionInvariant ==
    (pc # "start" /\ built.tag = "Ok") =>
        /\ IsArg(Value.subject)
        /\ IsArg(Value.sid)
        /\ (Value.queue_group # None => IsArg(Value.queue_group[1]))

\* C6: validation rejects. build() fails with a validation error naming
\* "subject" when the supplied subject is not well-formed, and with one
\* naming "queue group" when the subject is well-formed and the supplied
\* queue group is not.
C6_ValidationRejects ==
    (pc # "start" /\ self.subject # None) =>
        /\ ~IsArg(self.subject[1])
              => built = Err("ValidationError", "subject")
        /\ (/\ IsArg(self.subject[1])
            /\ self.queue_group # None
            /\ self.queue_group[1] # None
            /\ ~IsArg(self.queue_group[1][1]))
              => built = Err("ValidationError", "queue group")

\* build() rejected a well-formed subject with a queue group holding a space
C6_Witness ==
    /\ pc = "built"
    /\ self.subject = Some(FOO)
    /\ self.queue_group = Some(Some(<<97, 32, 98>>))
    /\ built = Err("ValidationError", "queue group")

\* C7: default id. Without a supplied sid the value's sid is 12 alphanumeric
\* characters from one call of the generator; with a supplied sid the
\* generator is not called and the value's sid is the supplied string.
C7_DefaultId ==
    (pc # "start" /\ built.tag = "Ok") =>
        IF self.sid = None
        THEN /\ Len(Value.sid) = 12
             /\ \A i \in 1..Len(Value.sid) : Value.sid[i] \in Alphanumeric
             /\ rng_calls = 1
        ELSE /\ Value.sid = self.sid[1]
             /\ rng_calls = 0

\* build() succeeded without a supplied sid and generated one
C7_Witness ==
    /\ pc = "built" /\ built.tag = "Ok"
    /\ self.sid = None
    /\ rng_calls = 1
    /\ Value.sid \in generate_sid

\* C8: missing required tokens. A CRLF-terminated, decodable buffer with
\* fewer than three tokens is answered with CommandMalformed.
C8_MissingTokens ==
    (/\ pc = "parsed" /\ wire.tag = "None"
     /\ EndsWithCRLF(buf)
     /\ Decodable(buf)
     /\ Len(Tokens(buf)) < 3)
        => parsed = CommandMalformed

\* A frame with the tokens SUB and FOO only was rejected as malformed
C8_Witness ==
    /\ pc = "parsed" /\ wire.tag = "None"
    /\ EndsWithCRLF(buf) /\ Decodable(buf)
    /\ Tokens(buf) = <<CMD_NAME, FOO>>
    /\ parsed = CommandMalformed

\* C9: field assignment. Tokens SUB, s, i parse to {s, None, i} and tokens
\* SUB, s, g, i parse to {s, Some(g), i}.
C9_FieldAssignment ==
    (/\ pc = "parsed" /\ wire.tag = "None"
     /\ EndsWithCRLF(buf)
     /\ Decodable(buf)
     /\ Len(Tokens(buf)) \in {3, 4}
     /\ Tokens(buf)[1] = CMD_NAME)
        => LET t == Tokens(buf) IN
           parsed = IF Len(t) = 3
                    THEN Ok(SubCommand(t[2], None, t[3]))
                    ELSE Ok(SubCommand(t[2], Some(t[3]), t[4]))

\* The frame SUB, FOO, g, SUB was parsed to {FOO, Some(g), SUB}
C9_Witness ==
    /\ pc = "parsed" /\ wire.tag = "None"
    /\ EndsWithCRLF(buf) /\ Decodable(buf)
    /\ Tokens(buf) = <<CMD_NAME, FOO, <<103>>, CMD_NAME>>
    /\ parsed = Ok(SubCommand(FOO, Some(<<103>>), CMD_NAME))

\* C10: over-long frames are accepted. A CRLF-terminated, decodable buffer
\* with first token SUB and five or more tokens parses to the second token
\* as subject, the third as queue group and the last as sid.
C10_OverlongAccepted ==
    (/\ pc = "parsed" /\ wire.tag = "None"
     /\ EndsWithCRLF(buf)
     /\ Decodable(buf)
     /\ Len(Tokens(buf)) >= 5
     /\ Tokens(buf)[1] = CMD_NAME)
        => LET t == Tokens(buf) IN
           parsed = Ok(SubCommand(t[2], Some(t[3]), t[Len(t)]))

\* The frame SUB, FOO, g, SUB, FOO was parsed to {FOO, Some(g), FOO},
\* the fourth token dropped
C10_Witness ==
    /\ pc = "parsed" /\ wire.tag = "None"
    /\ EndsWithCRLF(buf) /\ Decodable(buf)
    /\ Tokens(buf) = <<CMD_NAME, FOO, <<103>>, CMD_NAME, FOO>>
    /\ parsed = Ok(SubCommand(FOO, Some(<<103>>), FOO))

====
